---- MODULE Spec2Model ----
(***************************************************************************)
(* Model of src/secret_sharing.js: share formatting, the modular inverse,  *)
(* Lagrange interpolation, wrong-share detection and the processFile/main  *)
(* driver.                                                                 *)
(*                                                                         *)
(* Values.  A JS exception is a result record with ok = FALSE; a normal    *)
(* return has ok = TRUE.  BigInt is unbounded, so no width is modelled;    *)
(* BigInt "/" and "%" truncate toward zero (JsRem).  A Uint8Array is a     *)
(* sequence of numbers in 0..255, a hex string a sequence of hex digits    *)
(* 0..15, a numeral string the sequence of digits.indexOf(ch) of its       *)
(* characters (-1 for a character outside the digit alphabet).             *)
(***************************************************************************)
EXTENDS Integers, Sequences, FiniteSets, TLC

VARIABLES pc, file, json, shares, threshold, prime, result, out, failed,
          poly, tampered, interp, inv

vars == <<pc, file, json, shares, threshold, prime, result, out, failed,
          poly, tampered, interp, inv>>

(***************************************************************************)
(* Bounds of the explored inputs.                                          *)
(***************************************************************************)
MaxK == 2            \* largest threshold
MaxN == 3            \* largest number of shares handed to a function
MaxX == 3            \* largest share index of a dealt share
MaxA == 14           \* modInverse is called with a in -MaxA..MaxA
Primes == {5, 7}     \* prime moduli handed to detection and interpolation
Moduli == {2, 3, 5, 7, 11, 13}     \* prime moduli handed to modInverse

(***************************************************************************)
(* BigInt remainder: the sign of the result follows the dividend.          *)
(***************************************************************************)
JsRem(a, m) == IF a >= 0 THEN a % m ELSE 0 - ((0 - a) % m)

(***************************************************************************)
(* baseStringToHex, hexStringToUint8Array, padDataBytes                    *)
(***************************************************************************)
RECURSIVE baseStringLoop(_, _, _, _)
baseStringLoop(str, base, i, acc) ==
  IF i > Len(str) THEN [ok |-> TRUE, v |-> acc]
  ELSE IF str[i] = -1 THEN [ok |-> FALSE, v |-> 0]
  ELSE baseStringLoop(str, base, i + 1, acc * base + str[i])

RECURSIVE toStringHex(_)
toStringHex(n) == IF n < 16 THEN <<n>> ELSE Append(toStringHex(n \div 16), n % 16)

baseStringToHex(str, base) ==
  LET r == baseStringLoop(str, base, 1, 0)
  IN  IF ~r.ok THEN [ok |-> FALSE, v |-> <<>>]
      ELSE LET hex == toStringHex(r.v)
           IN  [ok |-> TRUE, v |-> IF Len(hex) % 2 # 0 THEN <<0>> \o hex ELSE hex]

hexStringToUint8Array(hex) ==
  LET h == IF Len(hex) % 2 # 0 THEN <<0>> \o hex ELSE hex
  IN  [i \in 1..(Len(h) \div 2) |-> (h[2 * i - 1] * 16 + h[2 * i]) % 256]

padDataBytes(data, length) ==
  IF Len(data) >= length THEN data
  ELSE [i \in 1..length |->
          IF i <= length - Len(data) THEN 0 ELSE data[i - (length - Len(data))]]

(***************************************************************************)
(* formatSharesFromJSON.  data is the sequence of the document's entries   *)
(* other than "keys", in the order "for (const key in data)" visits them;  *)
(* key is parseInt(key).  Storing index into share[0] keeps index mod 256. *)
(***************************************************************************)
RECURSIVE formatCollect(_, _, _, _)
formatCollect(data, i, sharesData, maxDataLen) ==
  IF i > Len(data)
  THEN [ok |-> TRUE, sharesData |-> sharesData, maxDataLen |-> maxDataLen]
  ELSE LET h == baseStringToHex(data[i].value, data[i].base)
           l == Len(h.v) \div 2
       IN  IF ~h.ok
           THEN [ok |-> FALSE, sharesData |-> <<>>, maxDataLen |-> 0]
           ELSE formatCollect(data, i + 1,
                              Append(sharesData, [index |-> data[i].key, hexVal |-> h.v]),
                              IF l > maxDataLen THEN l ELSE maxDataLen)

makeShare(index, hexVal, maxDataLen) ==
  <<index % 256>> \o padDataBytes(hexStringToUint8Array(hexVal), maxDataLen)

hasDuplicate(sh) == \E i, j \in 1..Len(sh) : i < j /\ sh[i] = sh[j]

formatSharesFromJSON(data) ==
  LET c  == formatCollect(data, 1, <<>>, 0)
      sh == [n \in 1..Len(c.sharesData) |->
               makeShare(c.sharesData[n].index, c.sharesData[n].hexVal, c.maxDataLen)]
  IN  IF ~c.ok
      THEN [ok |-> FALSE, v |-> <<>>, err |-> "Invalid character for base conversion"]
      ELSE IF hasDuplicate(sh)
      THEN [ok |-> FALSE, v |-> <<>>, err |-> "Duplicate share detected"]
      ELSE [ok |-> TRUE, v |-> sh, err |-> ""]

(***************************************************************************)
(* sharesToPoints: x is the first byte, y the big-endian rest.             *)
(***************************************************************************)
RECURSIVE bytesToBigInt(_, _, _)
bytesToBigInt(s, i, y) ==
  IF i > Len(s) THEN y ELSE bytesToBigInt(s, i + 1, y * 256 + s[i])

sharesToPoints(sh) ==
  [n \in 1..Len(sh) |-> <<sh[n][1], bytesToBigInt(sh[n], 2, 0)>>]

(***************************************************************************)
(* modInverse: the loop runs only while aa > 1; "aa / p" with p = 0 raises *)
(* a RangeError.                                                           *)
(***************************************************************************)
RECURSIVE modInverseLoop(_, _, _, _)
modInverseLoop(aa, p, x0, x1) ==
  IF aa > 1
  THEN IF p = 0 THEN [ok |-> FALSE, v |-> 0]
       ELSE modInverseLoop(p, aa % p, x1 - (aa \div p) * x0, x0)
  ELSE [ok |-> TRUE, v |-> x1]

modInverse(a, p) ==
  IF p = 1 THEN [ok |-> TRUE, v |-> 0]
  ELSE LET r == modInverseLoop(a, p, 0, 1)
       IN  IF r.ok /\ r.v < 0 THEN [ok |-> TRUE, v |-> r.v + p] ELSE r

(***************************************************************************)
(* lagrangeInterpolationAtZero.  n counts the modInverse calls made.       *)
(***************************************************************************)
RECURSIVE liAtZero(_, _, _, _, _, _)
liAtZero(points, pr, i, j, li, n) ==
  IF j > Len(points) THEN [ok |-> TRUE, v |-> li, n |-> n]
  ELSE IF j = i THEN liAtZero(points, pr, i, j + 1, li, n)
  ELSE LET r == modInverse(points[i][1] - points[j][1], pr)
       IN  IF ~r.ok THEN [ok |-> FALSE, v |-> 0, n |-> n + 1]
           ELSE liAtZero(points, pr, i, j + 1,
                         JsRem(li * (0 - points[j][1]) * r.v, pr), n + 1)

RECURSIVE lagrangeLoop(_, _, _, _, _)
lagrangeLoop(points, pr, i, secret, n) ==
  IF i > Len(points) THEN [ok |-> TRUE, v |-> secret, n |-> n]
  ELSE LET l == liAtZero(points, pr, i, 1, 1, n)
       IN  IF ~l.ok THEN l
           ELSE lagrangeLoop(points, pr, i + 1,
                             JsRem(pr + secret + points[i][2] * l.v, pr), l.n)

lagrangeInterpolationAtZero(points, pr) == lagrangeLoop(points, pr, 1, 0, 0)

(***************************************************************************)
(* detectWrongShares.  The result record carries the returned secret       *)
(* (<<>> for null, <<v>> for the BigInt v) and wrongShares (pairs          *)
(* <<Number(x), y>>), and, for the properties, every yEstimate compared    *)
(* (estimates) and the number of modInverse calls made (calls).            *)
(***************************************************************************)
RECURSIVE liAt(_, _, _, _, _, _, _)
liAt(subset, pr, x, i, j, li, n) ==
  IF j > Len(subset) THEN [ok |-> TRUE, v |-> li, n |-> n]
  ELSE IF j = i THEN liAt(subset, pr, x, i, j + 1, li, n)
  ELSE LET r == modInverse(subset[i][1] - subset[j][1], pr)
       IN  IF ~r.ok THEN [ok |-> FALSE, v |-> 0, n |-> n + 1]
           ELSE liAt(subset, pr, x, i, j + 1,
                     JsRem(li * (x - subset[j][1]) * r.v, pr), n + 1)

RECURSIVE yEstimateLoop(_, _, _, _, _, _)
yEstimateLoop(subset, pr, x, i, yEstimate, n) ==
  IF i > Len(subset) THEN [ok |-> TRUE, v |-> yEstimate, n |-> n]
  ELSE LET l == liAt(subset, pr, x, i, 1, 1, n)
       IN  IF ~l.ok THEN l
           ELSE yEstimateLoop(subset, pr, x, i + 1,
                              JsRem(yEstimate + subset[i][2] * l.v, pr), l.n)

Thrown(n) ==
  [ok |-> FALSE, secret |-> <<>>, wrongShares |-> <<>>, estimates |-> <<>>, calls |-> n]

RECURSIVE detectLoop(_, _, _, _, _, _, _, _)
detectLoop(points, subset, pr, secret, q, wrongShares, estimates, n) ==
  IF q > Len(points)
  THEN [ok |-> TRUE, secret |-> <<secret>>, wrongShares |-> wrongShares,
        estimates |-> estimates, calls |-> n]
  ELSE LET e == yEstimateLoop(subset, pr, points[q][1], 1, 0, n)
       IN  IF ~e.ok THEN Thrown(e.n)
           ELSE detectLoop(points, subset, pr, secret, q + 1,
                           IF e.v # points[q][2]
                           THEN Append(wrongShares, points[q]) ELSE wrongShares,
                           Append(estimates, e.v), e.n)

slice(points, thr) ==
  SubSeq(points, 1, IF thr > Len(points) THEN Len(points) ELSE thr)

detectBody(sh, thr, pr) ==
  LET points == sharesToPoints(sh)
      subset == slice(points, thr)
      s      == lagrangeInterpolationAtZero(subset, pr)
  IN  IF ~s.ok THEN Thrown(s.n)
      ELSE detectLoop(points, subset, pr, s.v, 1, <<>>, <<>>, s.n)

NullResult ==
  [ok |-> TRUE, secret |-> <<>>, wrongShares |-> <<>>, estimates |-> <<>>, calls |-> 0]

\* detectWrongShares with the length guard off by one
detectWrongSharesOffByOne(sh, thr, pr) ==
  IF Len(sh) + 1 < thr THEN NullResult ELSE detectBody(sh, thr, pr)

detectWrongShares(sh, thr, pr) ==
  IF Len(sh) < thr THEN NullResult ELSE detectBody(sh, thr, pr)

(***************************************************************************)
(* Calls of the functions on drawn inputs.                                 *)
(*                                                                         *)
(* The shares are dealt from a polynomial poly of degree threshold - 1     *)
(* over the field of prime elements (poly[1] is the secret), at pairwise   *)
(* distinct indices in 1..MaxX, with a one-byte payload; any number        *)
(* 0..MaxN of them is handed over, by ascending index as the keys of a     *)
(* document are visited.  One share may then be given another payload      *)
(* before the call.  modInverse is called on its own, with every prime     *)
(* modulus of Moduli.                                                      *)
(***************************************************************************)
NoCall == [called |-> FALSE]

RECURSIVE power(_, _)
power(x, e) == IF e = 0 THEN 1 ELSE x * power(x, e - 1)

RECURSIVE evalPoly(_, _, _, _)
evalPoly(c, x, m, i) ==
  IF i > Len(c) THEN 0 ELSE (c[i] * power(x, i - 1) + evalPoly(c, x, m, i + 1)) % m

RECURSIVE SortedSeq(_)
SortedSeq(S) ==
  IF S = {} THEN <<>>
  ELSE LET m == CHOOSE x \in S : \A y \in S : x <= y
       IN  <<m>> \o SortedSeq(S \ {m})

InjSeqs(S, n) ==
  {s \in [1..n -> S] : \A i, j \in 1..n : i # j => s[i] # s[j]}

InitFn ==
  /\ pc = "input"
  /\ file = 0
  /\ json = <<>>
  /\ out = <<>>
  /\ failed = <<>>
  /\ prime \in Primes
  /\ threshold \in 1..MaxK
  /\ poly \in [1..threshold -> 0..(prime - 1)]
  /\ \E X \in {S \in SUBSET (1..MaxX) : Cardinality(S) <= MaxN} :
        shares = [i \in 1..Cardinality(X) |->
                    <<SortedSeq(X)[i], evalPoly(poly, SortedSeq(X)[i], prime, 1)>>]
  /\ tampered = 0
  /\ result = NoCall
  /\ interp = NoCall
  /\ inv = NoCall

Tamper(i, v) ==
  /\ pc = "input"
  /\ tampered = 0
  /\ i \in 1..Len(shares)
  /\ v # shares[i][2]
  /\ shares' = [shares EXCEPT ![i] = <<shares[i][1], v>>]
  /\ tampered' = i
  /\ UNCHANGED <<pc, file, json, threshold, prime, result, out, failed, poly,
                 interp, inv>>

CallDetectWrongShares ==
  /\ pc = "input"
  /\ result' = [called |-> TRUE] @@ detectWrongShares(shares, threshold, prime)
  /\ pc' = "detected"
  /\ UNCHANGED <<file, json, shares, threshold, prime, out, failed, poly,
                 tampered, interp, inv>>

\* sel picks threshold shares, in any order
CallLagrange(sel) ==
  /\ pc = "input"
  /\ tampered = 0
  /\ LET points == sharesToPoints(shares)
     IN  interp' = [called |-> TRUE, sel |-> sel] @@
                   lagrangeInterpolationAtZero([i \in 1..Len(sel) |-> points[sel[i]]],
                                               prime)
  /\ pc' = "interpolated"
  /\ UNCHANGED <<file, json, shares, threshold, prime, result, out, failed,
                 poly, tampered, inv>>

InitInv ==
  /\ pc = "input"
  /\ file = 0
  /\ json = <<>>
  /\ out = <<>>
  /\ failed = <<>>
  /\ prime \in Moduli
  /\ threshold = 0
  /\ poly = <<>>
  /\ shares = <<>>
  /\ tampered = 0
  /\ result = NoCall
  /\ interp = NoCall
  /\ inv = NoCall

CallModInverse(a) ==
  /\ pc = "input"
  /\ inv' = [called |-> TRUE, a |-> a] @@ modInverse(a, prime)
  /\ pc' = "inverted"
  /\ UNCHANGED <<file, json, shares, threshold, prime, result, out, failed,
                 poly, tampered, interp>>

NextFn ==
  \/ \E i \in 1..MaxN : \E v \in 0..(prime - 1) : Tamper(i, v)
  \/ CallDetectWrongShares
  \/ \E sel \in InjSeqs(1..Len(shares), threshold) : CallLagrange(sel)

SpecFn == InitFn /\ [][NextFn]_vars

NextInv == \E a \in (0 - MaxA)..MaxA : CallModInverse(a)

SpecInv == InitInv /\ [][NextInv]_vars

(***************************************************************************)
(* processFile and main.                                                   *)
(*                                                                         *)
(* processFile runs in three uninterrupted stretches, separated by its two *)
(* awaits (readFile, sss.combine).  The file's content, and whether the    *)
(* read and the combine succeed, are the environment's choice.  out[f] is  *)
(* what has been written to the console for file f; failed[f] records that *)
(* the catch block ran for it.                                             *)
(*                                                                         *)
(* PRIME stands for 2^521 - 1, which is beyond the model checker's         *)
(* integers: it is the least prime above every share index and every       *)
(* payload of the documents drawn (one byte each), which is what line 156  *)
(* asks of it.                                                             *)
(***************************************************************************)
PRIME == 257

Keys == {0, 1, 2, 256, 257}

Entries == { [base |-> 10, value |-> <<7>>],
             [base |-> 16, value |-> <<1, 3>>],
             [base |-> 10, value |-> <<7, -1>>] }

document(h, k, keys, e) ==
  [hasKeys |-> h, k |-> k,
   data |-> [i \in 1..Len(keys) |->
               [key |-> keys[i], base |-> e[keys[i]].base, value |-> e[keys[i]].value]]]

Documents ==
  UNION { { document(k > 0, k, SortedSeq(S), e) : e \in [S -> Entries] } :
            k \in 0..MaxK, S \in SUBSET Keys }

Line(t) == [t |-> t, index |-> 0, val |-> 0, msg |-> ""]

ErrorLine(msg) == [t |-> "Error processing file", index |-> 0, val |-> 0, msg |-> msg]

logResult(wrongShares) ==
  <<Line("Reconstructed Secret"), Line("UTF-8"), Line("Hex"), Line("Base64")>>
  \o (IF Len(wrongShares) > 0
      THEN <<Line("Wrong shares detected")>>
           \o [i \in 1..Len(wrongShares) |->
                 [t |-> "Index", index |-> wrongShares[i][1], val |-> wrongShares[i][2],
                  msg |-> ""]]
      ELSE <<Line("No wrong shares detected")>>)
  \o <<Line("----")>>

\* a driver that gives up after a failed file
nextFileAbort(f, hasFailed) == IF hasFailed THEN 3 ELSE f + 1

nextFile(f, hasFailed) == f + 1

Init ==
  /\ pc = "start"
  /\ file = 1
  /\ json = <<>>
  /\ shares = <<>>
  /\ threshold = 0
  /\ prime = PRIME
  /\ result = NoCall
  /\ out = [f \in 1..2 |-> <<>>]
  /\ failed = [f \in 1..2 |-> FALSE]
  /\ poly = <<>>
  /\ tampered = 0
  /\ interp = NoCall
  /\ inv = NoCall

Catch(msg) ==
  /\ out' = [out EXCEPT ![file] = Append(@, ErrorLine(msg))]
  /\ failed' = [failed EXCEPT ![file] = TRUE]
  /\ pc' = "finished"

StartProcessFile ==
  /\ pc = "start"
  /\ pc' = "reading"
  /\ UNCHANGED <<file, json, shares, threshold, prime, result, out, failed,
                 poly, tampered, interp, inv>>

ReadFileRejects ==
  /\ pc = "reading"
  /\ Catch("ENOENT")
  /\ UNCHANGED <<file, json, shares, threshold, prime, result, poly, tampered,
                 interp, inv>>

ParseThrows ==
  /\ pc = "reading"
  /\ Catch("SyntaxError")
  /\ UNCHANGED <<file, json, shares, threshold, prime, result, poly, tampered,
                 interp, inv>>

AfterRead(doc) ==
  /\ pc = "reading"
  /\ json' = doc
  /\ LET f == formatSharesFromJSON(doc.data)
     IN  IF ~f.ok
         THEN Catch(f.err) /\ UNCHANGED <<shares, threshold>>
         ELSE /\ shares' = f.v
              /\ IF ~doc.hasKeys
                 THEN Catch("TypeError") /\ UNCHANGED threshold
                 ELSE /\ threshold' = doc.k
                      /\ pc' = "combining"
                      /\ UNCHANGED <<out, failed>>
  /\ UNCHANGED <<file, prime, result, poly, tampered, interp, inv>>

CombineRejects ==
  /\ pc = "combining"
  /\ Catch("combine")
  /\ UNCHANGED <<file, json, shares, threshold, prime, result, poly, tampered,
                 interp, inv>>

CombineResolves ==
  /\ pc = "combining"
  /\ LET d == detectWrongShares(shares, threshold, PRIME)
     IN  /\ result' = [called |-> TRUE] @@ d
         /\ IF ~d.ok
            THEN Catch("RangeError")
            ELSE /\ out' = [out EXCEPT ![file] = @ \o logResult(d.wrongShares)]
                 /\ pc' = "finished"
                 /\ UNCHANGED failed
  /\ UNCHANGED <<file, json, shares, threshold, prime, poly, tampered, interp, inv>>

Return ==
  /\ pc = "finished"
  /\ file' = nextFile(file, failed[file])
  /\ pc' = IF file' > 2 THEN "done" ELSE "start"
  /\ json' = <<>>
  /\ shares' = <<>>
  /\ threshold' = 0
  /\ result' = NoCall
  /\ UNCHANGED <<prime, out, failed, poly, tampered, interp, inv>>

Next ==
  \/ StartProcessFile
  \/ ReadFileRejects
  \/ ParseThrows
  \/ \E doc \in Documents : AfterRead(doc)
  \/ CombineRejects
  \/ CombineResolves
  \/ Return

Spec == Init /\ [][Next]_vars

(***************************************************************************)
(* Properties.                                                             *)
(***************************************************************************)
RECURSIVE gcd(_, _)
gcd(a, b) == IF b = 0 THEN (IF a < 0 THEN 0 - a ELSE a) ELSE gcd(b, a % (IF b < 0 THEN 0 - b ELSE b))

\* the shares handed over have pairwise distinct non-zero indices in the
\* field and payloads below the modulus
DistinctNonZero ==
  /\ \A i \in 1..Len(shares) :
        shares[i][1] % prime # 0 /\ shares[i][2] >= 0 /\ shares[i][2] < prime
  /\ \A i, j \in 1..Len(shares) :
        i # j => shares[i][1] % prime # shares[j][1] % prime

\* C1: interpolating at zero over any threshold-sized selection of the dealt
\* shares, in any order, returns the secret poly[1].
C1_RoundTrip ==
  (pc = "interpolated" /\ tampered = 0 /\ DistinctNonZero)
    => (interp.ok /\ interp.v = poly[1])

\* C2: on an untampered share set of at least threshold shares,
\* detectWrongShares returns an empty wrongShares.
C2_NoFalsePositives ==
  (pc = "detected" /\ tampered = 0 /\ Len(shares) >= threshold /\ DistinctNonZero)
    => (result.ok /\ result.wrongShares = <<>>)

\* C3: after the payload of one share was replaced by a different value,
\* detectWrongShares lists that share's index in wrongShares; stated for a
\* share outside the first threshold shares, which the estimate does not
\* depend on.
C3_TamperDetection ==
  (pc = "detected" /\ tampered > threshold /\ DistinctNonZero)
    => (result.ok /\ \E w \in 1..Len(result.wrongShares) :
                        result.wrongShares[w][1] = shares[tampered][1])

\* C4: for a coprime to the prime modulus, modInverse returns b with
\* (a * b) mod m = 1.
C4_InverseCorrect ==
  (pc = "inverted" /\ gcd(inv.a, prime) = 1)
    => (inv.ok /\ (inv.a * inv.v) % prime = 1)

\* C5: modInverse fails, and returns nothing, when gcd(a, m) # 1.
C5_InverseFails ==
  (pc = "inverted" /\ gcd(inv.a, prime) # 1) => ~inv.ok

\* C6: a document with two shares of the same index byte and different
\* payloads never gets a result {secret, wrongShares} from detectWrongShares.
C6_DuplicateIndexRejected ==
  (pc = "finished" /\ result.called
     /\ \E i, j \in 1..Len(shares) : i < j /\ shares[i][1] = shares[j][1]
                                        /\ shares[i] # shares[j])
    => ~result.ok

\* C7: with fewer shares than the threshold, detectWrongShares returns
\* {secret: null, wrongShares: []} without raising and without any
\* modInverse call.
C7_InsufficientShares ==
  (pc = "detected" /\ Len(shares) < threshold)
    => (result.ok /\ result.secret = <<>> /\ result.wrongShares = <<>>
        /\ result.calls = 0)

C7_Witness ==
  pc = "detected" /\ Len(shares) < threshold /\ Len(shares) > 0 /\ result.ok

\* C8: no point that detectWrongShares interpolates over has x = 0.
C8_NoZeroIndex ==
  (pc = "finished" /\ result.called /\ Len(shares) >= threshold)
    => \A i \in 1..Len(shares) : sharesToPoints(shares)[i][1] # 0

\* C9: the value lagrangeInterpolationAtZero returns and every yEstimate
\* detectWrongShares compares lie in [0, prime).
C9_Normalized ==
  /\ (pc = "interpolated" /\ DistinctNonZero /\ interp.ok)
       => (0 <= interp.v /\ interp.v < prime)
  /\ (pc = "detected" /\ DistinctNonZero /\ result.ok)
       => \A i \in 1..Len(result.estimates) :
             0 <= result.estimates[i] /\ result.estimates[i] < prime

\* C10: a file that failed has the error message as its only output, and
\* both files have been processed, the second after the first, when main ends.
C10_AllOrNothing ==
  /\ \A f \in 1..2 :
        failed[f] => (Len(out[f]) = 1 /\ out[f][1].t = "Error processing file")
  /\ pc = "done" => \A f \in 1..2 : out[f] # <<>>
  /\ out[2] # <<>> => (file >= 2 /\ out[1] # <<>>)

C10_Witness ==
  /\ pc = "done"
  /\ failed[1]
  /\ ~failed[2]
  /\ \E i \in 1..Len(out[2]) : out[2][i].t = "Reconstructed Secret"

====
